---- MODULE Spec2Model ----
(***************************************************************************)
(* Model of package player (player.go): the segment-addressable stream     *)
(* Buffer, its mutex l, and the goroutines that call Write, Get, ReadID,   *)
(* SetCount and the introspection methods concurrently.                    *)
(*                                                                         *)
(* The Buffer never inspects a byte, so bytes are named by the position    *)
(* they take in the stream: the k-th byte appended at line 120 carries the *)
(* value k - 1.  Until a payload is appended only its length matters, and  *)
(* it is held as that many Pending bytes.  The naming loses no behaviour   *)
(* and makes every misplaced, stale or missing byte visible.               *)
(*                                                                         *)
(* A goroutine that calls a method whose first statement is b.l.Lock()     *)
(* shows itself to the others only once it has the mutex, so calling and   *)
(* locking are one step, enabled while the mutex is free; a call that      *)
(* finds the mutex held is that step not being enabled.  Write reads       *)
(* b.maxCount before it locks, so there the two are separate steps.        *)
(***************************************************************************)
EXTENDS Integers, Sequences, FiniteSets, TLC

\* ------------------------------------------------------------------ bounds
MaxBytes == 6          \* bytes appended to the stream over a whole run
MaxPayload == 4        \* longest single Write payload
SegSize == 2           \* cfg.Segment used at construction
MaxID == 3             \* largest segment id a caller asks for

Procs == {1, 2}                 \* goroutines sharing one *Buffer
Starts == {0, 2}                \* cfg.Start
Counts == {0, 1}                \* cfg.Count (0 selects the default)
NewCounts == {0, 1, 2}          \* arguments of SetCount
IDs == 0..MaxID
Blank == -1                     \* content of a caller's fresh destination buffer
Pending == -2                   \* a payload byte that has no stream position yet

\* --------------------------------------------------------- program constants
DefaultSegment == 1024
DefaultCount == 8

ErrMiss == "buffer miss"
ErrBufferTooSmall == "buffer is too small"
ErrTooLargeWrite == "write is too large"
ErrEmpty == "buffer is empty"
ErrSink == "sink error"         \* whatever error the io.Writer reports

\* errors.Wrap(err, msg): the cause stays reachable through errors.Cause.
Nil == [cause |-> "nil", msg |-> ""]
Raw(e) == [cause |-> e, msg |-> ""]
Wrap(e, m) == [cause |-> e, msg |-> m]

VARIABLES
  segment, maxCount, count, lastID, firstID, overflow, l, data,  \* Buffer
  pc,        \* pc[p]: where goroutine p stands
  buf,       \* buf[p]: Write's payload, Get's destination, ReadID's scratch
  id,        \* id[p]: the id argument of Get / ReadID
  ret,       \* the call that returned in the step just taken (NoRet if none):
             \* its arguments, its results, what it handed to w.Write
  start,     \* cfg.Start of the construction
  written,   \* concatenation of every payload appended at line 120
  accepted,  \* some Write has returned without error
  plain      \* so far every appended payload was a whole number of segments
             \* and SetCount has stored nothing

bufferVars == <<segment, maxCount, count, lastID, firstID, overflow, l, data>>
procVars == <<pc, buf, id>>
ghostVars == <<start, written, accepted, plain>>
vars == <<bufferVars, procVars, ret, ghostVars>>

\* The record of a returned call: b is the caller's slice after the call,
\* s the sequence of slices that were handed to the sink.
Result(p, name, i, c, b, n, e, s) ==
  [p |-> p, op |-> name, id |-> i, newCount |-> c, buf |-> b,
   n |-> n, err |-> e, sunk |-> s]

NoRet == Result(0, "none", 0, 0, <<>>, 0, Nil, <<>>)

\* ------------------------------------------------------------ construction
\* New(cfg): zero Segment / Count select the defaults; lastID, count and data
\* keep Go's zero values.
New(cfg) ==
  [segment  |-> IF cfg.Segment = 0 THEN DefaultSegment ELSE cfg.Segment,
   maxCount |-> IF cfg.Count = 0 THEN DefaultCount ELSE cfg.Count,
   firstID  |-> cfg.Start,
   overflow |-> cfg.AllowOverflow,
   count    |-> 0,
   lastID   |-> 0,
   data     |-> <<>>]

Configs ==
  [Segment : {SegSize}, Count : Counts, Start : Starts, AllowOverflow : BOOLEAN]

Init ==
  \E cfg \in Configs :
    LET b == New(cfg) IN
      /\ segment = b.segment
      /\ maxCount = b.maxCount
      /\ count = b.count
      /\ lastID = b.lastID
      /\ firstID = b.firstID
      /\ overflow = b.overflow
      /\ data = b.data
      /\ l = FALSE
      /\ start = cfg.Start
      /\ pc = [p \in Procs |-> "idle"]
      /\ buf = [p \in Procs |-> <<>>]
      /\ id = [p \in Procs |-> 0]
      /\ ret = NoRet
      /\ written = <<>>
      /\ accepted = FALSE
      /\ plain = TRUE

\* ------------------------------------------------------------------ helpers
\* A call starts: p leaves "idle" with its arguments.
Enter(p, at, b, i) ==
  /\ pc[p] = "idle"
  /\ pc' = [pc EXCEPT ![p] = at]
  /\ buf' = [buf EXCEPT ![p] = b]
  /\ id' = [id EXCEPT ![p] = i]
  /\ ret' = NoRet

\* A step inside a call: p moves on, nothing is returned.
Goto(p, at) ==
  /\ pc' = [pc EXCEPT ![p] = at]
  /\ ret' = NoRet

\* A call returns; its arguments die with it.
Return(p, r) ==
  /\ pc' = [pc EXCEPT ![p] = "idle"]
  /\ buf' = [buf EXCEPT ![p] = <<>>]
  /\ id' = [id EXCEPT ![p] = 0]
  /\ ret' = r

\* s[n:] of a Go slice.
Drop(s, n) == SubSeq(s, n + 1, Len(s))

\* The bytes of a payload once they are appended behind the stream w.
Named(b, w) == [k \in 1..Len(b) |-> Len(w) + k - 1]

\* Go's copy(dst, src): min(len(dst), len(src)) elements are copied.
Copy(dst, src) ==
  [k \in 1..Len(dst) |-> IF k <= Len(src) THEN src[k] ELSE dst[k]]

\* ------------------------------------------------------------------- Write
\* Faulty variant of the size check: a payload that exactly fills the
\* window is refused as well.
TooLargeEager(b) == Len(b) >= segment * maxCount

\* line 112: int64(len(buf)) > b.segment*b.maxCount
TooLarge(b) == Len(b) > segment * maxCount

\* Faulty variants of the loop condition: one evicts a full window, the
\* other tolerates one segment too many.
OverFullEager == Len(data) >= segment * maxCount

OverFullLate == Len(data) > segment * maxCount + segment

\* line 126: the condition of the eviction loop
OverFull == Len(data) > segment * maxCount

\* Bytes of payloads that are still to be appended.
RECURSIVE Outstanding(_)
Outstanding(S) ==
  IF S = {} THEN 0
  ELSE LET p == CHOOSE q \in S : TRUE
       IN (IF pc[p] \in {"w_lock", "w_append"} THEN Len(buf[p]) ELSE 0)
          + Outstanding(S \ {p})

\* lines 111-117: the call, and the size check made without the mutex
WriteCheck(p) ==
  \E n \in 0..MaxPayload :
    LET b == [k \in 1..n |-> Pending] IN
      /\ IF TooLarge(b) /\ ~overflow
           THEN /\ pc[p] = "idle"
                /\ Return(p, Result(p, "Write", 0, 0, b, 0,
                                    Wrap(ErrTooLargeWrite, "failed to write"),
                                    <<>>))
           ELSE /\ Len(written) + Outstanding(Procs) + n <= MaxBytes
                /\ Enter(p, "w_lock", b, 0)
      /\ UNCHANGED <<bufferVars, ghostVars>>

\* Faulty variant of Write's Lock: it does not wait for the mutex.
WriteLockNoWait(p) ==
  /\ pc[p] = "w_lock"
  /\ l' = TRUE
  /\ Goto(p, "w_append")
  /\ UNCHANGED <<segment, maxCount, count, lastID, firstID, overflow, data,
                 buf, id, ghostVars>>

\* line 119
WriteLock(p) ==
  /\ pc[p] = "w_lock"
  /\ l = FALSE
  /\ l' = TRUE
  /\ Goto(p, "w_append")
  /\ UNCHANGED <<segment, maxCount, count, lastID, firstID, overflow, data,
                 buf, id, ghostVars>>

\* line 120
WriteAppend(p) ==
  /\ pc[p] = "w_append"
  /\ data' = data \o Named(buf[p], written)
  /\ written' = written \o Named(buf[p], written)
  /\ buf' = [buf EXCEPT ![p] = Named(@, written)]
  /\ plain' = (plain /\ Len(buf[p]) % segment = 0)
  /\ Goto(p, "w_count")
  /\ UNCHANGED <<segment, maxCount, count, lastID, firstID, overflow, l,
                 id, start, accepted>>

\* Faulty variant of the window update: the "count + firstID" rule.
WriteCountNoMinusOne(p) ==
  /\ pc[p] = "w_count"
  /\ count' = Len(data) \div segment
  /\ lastID' = count' + firstID
  /\ Goto(p, "w_loop")
  /\ UNCHANGED <<segment, maxCount, firstID, overflow, l, data,
                 buf, id, ghostVars>>

\* Faulty variant of the window update: a trailing partial segment is
\* counted as a segment.
WriteCountRoundUp(p) ==
  /\ pc[p] = "w_count"
  /\ count' = (Len(data) + segment - 1) \div segment
  /\ lastID' = count' + firstID - 1
  /\ Goto(p, "w_loop")
  /\ UNCHANGED <<segment, maxCount, firstID, overflow, l, data,
                 buf, id, ghostVars>>

\* lines 121-124
WriteCount(p) ==
  /\ pc[p] = "w_count"
  /\ count' = Len(data) \div segment
  /\ lastID' = count' + firstID - 1
  /\ Goto(p, "w_loop")
  /\ UNCHANGED <<segment, maxCount, firstID, overflow, l, data,
                 buf, id, ghostVars>>

\* lines 126-130, one iteration; b.data[b.segment:] panics when the slice is
\* shorter than one segment, after firstID was already incremented.
WriteEvict(p) ==
  /\ pc[p] = "w_loop"
  /\ OverFull
  /\ firstID' = firstID + 1
  /\ IF segment <= Len(data)
       THEN data' = Drop(data, segment) /\ Goto(p, "w_loop")
       ELSE data' = data /\ Goto(p, "panic")
  /\ UNCHANGED <<segment, maxCount, count, lastID, overflow, l,
                 buf, id, ghostVars>>

\* lines 126, 132-133: the loop condition fails, unlock and return
WriteUnlock(p) ==
  /\ pc[p] = "w_loop"
  /\ ~OverFull
  /\ l' = FALSE
  /\ Return(p, Result(p, "Write", 0, 0, buf[p], Len(buf[p]), Nil, <<>>))
  /\ accepted' = TRUE
  /\ UNCHANGED <<segment, maxCount, count, lastID, firstID, overflow, data,
                 start, written, plain>>

\* ---------------------------------------------------------------- SetCount
\* Faulty variant of SetCount: a shrink evicts the oldest segment at once.
SetCountTrim(p) ==
  \E c \in NewCounts :
    /\ pc[p] = "idle"
    /\ l = FALSE
    /\ maxCount' = c
    /\ plain' = FALSE
    /\ IF Len(data) > segment * c /\ segment <= Len(data)
         THEN data' = Drop(data, segment) /\ firstID' = firstID + 1
         ELSE data' = data /\ firstID' = firstID
    /\ Return(p, Result(p, "SetCount", 0, c, <<>>, 0, Nil, <<>>))
    /\ UNCHANGED <<segment, count, lastID, overflow, l,
                   start, written, accepted>>

\* lines 79-83: Lock, store, Unlock
SetCount(p) ==
  \E c \in NewCounts :
    /\ pc[p] = "idle"
    /\ l = FALSE
    /\ maxCount' = c
    /\ plain' = FALSE
    /\ Return(p, Result(p, "SetCount", 0, c, <<>>, 0, Nil, <<>>))
    /\ UNCHANGED <<segment, count, lastID, firstID, overflow, l, data,
                   start, written, accepted>>

\* ------------------------------------------------------- Get and ReadID
\* Faulty variants of acquireID: one looks at the window before it looks
\* for bytes, the other takes a store without a complete segment for empty.
acquireIDWindowFirst(i) ==
  IF i < firstID \/ i > lastID THEN ErrMiss
  ELSE IF Len(data) = 0 THEN ErrEmpty
  ELSE "nil"

acquireIDByCount(i) ==
  IF Len(data) < segment THEN ErrEmpty
  ELSE IF i < firstID \/ i > lastID THEN ErrMiss
  ELSE "nil"

\* acquireID, lines 136-144; "nil" when the id is served
acquireID(i) ==
  IF Len(data) = 0 THEN ErrEmpty
  ELSE IF i < firstID \/ i > lastID THEN ErrMiss
  ELSE "nil"

\* Faulty variant of getSegment: the offset forgets the requested id.
getSegmentFirst(i) == SubSeq(data, 1, segment)

\* getSegment, lines 104-108: b.data[start : b.segment+start]
getSegment(i) ==
  LET first == segment * (i - firstID)
  IN SubSeq(data, first + 1, segment + first)

\* The slice expression of getSegment stays inside the slice.
InSlice(i) ==
  LET first == segment * (i - firstID)
  IN first >= 0 /\ segment + first <= Len(data)

\* lengths of the destination a caller of Get brings
DstLens == {segment - 1, segment, segment + 1}

\* Faulty variant of the length check: a destination of exactly one segment
\* is refused.
TooSmallEager(b) == Len(b) <= segment

\* line 161: int64(len(buf)) < b.segment
TooSmall(b) == Len(b) < segment

\* lines 160-163: the call with a destination that fails the length check,
\* which is made without the mutex
GetCheck(p) ==
  \E n \in DstLens, i \in IDs :
    LET b == [k \in 1..n |-> Blank] IN
      /\ pc[p] = "idle"
      /\ TooSmall(b)
      /\ Return(p, Result(p, "Get", i, 0, b, 0,
                          Wrap(ErrBufferTooSmall, "bad buffer"), <<>>))
      /\ UNCHANGED <<bufferVars, ghostVars>>

\* lines 160-164: the call with a destination that passes the check, and Lock
GetLock(p) ==
  \E n \in DstLens, i \in IDs :
    LET b == [k \in 1..n |-> Blank] IN
      /\ ~TooSmall(b)
      /\ l = FALSE
      /\ l' = TRUE
      /\ Enter(p, "g_acquire", b, i)
      /\ UNCHANGED <<segment, maxCount, count, lastID, firstID, overflow,
                     data, ghostVars>>

\* lines 165-167: the error return leaves the mutex locked
GetAcquire(p) ==
  /\ pc[p] = "g_acquire"
  /\ IF acquireID(id[p]) # "nil"
       THEN Return(p, Result(p, "Get", id[p], 0, buf[p], 0,
                             Wrap(acquireID(id[p]), "bad id"), <<>>))
       ELSE Goto(p, "g_copy") /\ UNCHANGED <<buf, id>>
  /\ UNCHANGED <<bufferVars, ghostVars>>

\* lines 168-170: copy(buf[:b.segment], b.getSegment(id)), Unlock, return nil
GetCopy(p) ==
  /\ pc[p] = "g_copy"
  /\ IF InSlice(id[p])
       THEN /\ l' = FALSE
            /\ Return(p, Result(p, "Get", id[p], 0,
                                Copy(SubSeq(buf[p], 1, segment),
                                     getSegment(id[p]))
                                  \o Drop(buf[p], segment),
                                0, Nil, <<>>))
       ELSE /\ l' = l
            /\ Goto(p, "panic")
            /\ UNCHANGED <<buf, id>>
  /\ UNCHANGED <<segment, maxCount, count, lastID, firstID, overflow, data,
                 ghostVars>>

\* lines 147-148: the call, and Lock
ReadIDLock(p) ==
  \E i \in IDs :
    /\ l = FALSE
    /\ l' = TRUE
    /\ Enter(p, "r_acquire", <<>>, i)
    /\ UNCHANGED <<segment, maxCount, count, lastID, firstID, overflow,
                   data, ghostVars>>

\* lines 149-152: the error return unlocks first
ReadIDAcquire(p) ==
  /\ pc[p] = "r_acquire"
  /\ IF acquireID(id[p]) # "nil"
       THEN /\ l' = FALSE
            /\ Return(p, Result(p, "ReadID", id[p], 0, <<>>, 0,
                                Wrap(acquireID(id[p]), "bad id"), <<>>))
       ELSE /\ l' = l
            /\ Goto(p, "r_copy")
            /\ UNCHANGED <<buf, id>>
  /\ UNCHANGED <<segment, maxCount, count, lastID, firstID, overflow, data,
                 ghostVars>>

\* Faulty variant of ReadID's copy step: the mutex is still held when the
\* sink is called.
ReadIDCopyLocked(p) ==
  /\ pc[p] = "r_copy"
  /\ buf' = [buf EXCEPT ![p] = Copy(<<>>, getSegment(id[p]))]
  /\ l' = l
  /\ Goto(p, "r_sink")
  /\ UNCHANGED <<segment, maxCount, count, lastID, firstID, overflow, data,
                 id, ghostVars>>

\* lines 153-155: var buf []byte is nil, so copy has room for nothing; Unlock
ReadIDCopy(p) ==
  /\ pc[p] = "r_copy"
  /\ IF InSlice(id[p])
       THEN /\ buf' = [buf EXCEPT ![p] = Copy(<<>>, getSegment(id[p]))]
            /\ l' = FALSE
            /\ Goto(p, "r_sink")
       ELSE /\ buf' = buf
            /\ l' = l
            /\ Goto(p, "panic")
  /\ UNCHANGED <<segment, maxCount, count, lastID, firstID, overflow, data,
                 id, ghostVars>>

\* line 156: return w.Write(buf); the sink takes n bytes and may fail, and
\* by the io.Writer contract reports an error whenever n < len(buf).
ReadIDSink(p) ==
  /\ pc[p] = "r_sink"
  /\ \E n \in 0..Len(buf[p]), e \in {Nil, Raw(ErrSink)} :
       /\ e = Nil => n = Len(buf[p])
       /\ Return(p, Result(p, "ReadID", id[p], 0, buf[p], n, e, <<buf[p]>>))
  /\ UNCHANGED <<bufferVars, ghostVars>>

\* ----------------------------------------------------------- introspection
\* A getter: Lock, read the field, and the deferred Unlock.
Getter(p, name, value) ==
  /\ pc[p] = "idle"
  /\ l = FALSE
  /\ Return(p, Result(p, name, 0, 0, <<>>, value, Nil, <<>>))
  /\ UNCHANGED <<bufferVars, ghostVars>>

\* lines 91-95
Count(p) == Getter(p, "Count", maxCount)
\* lines 98-102
Size(p) == Getter(p, "Size", Len(data))
\* lines 174-178
LastID(p) == Getter(p, "LastID", lastID)
\* lines 181-185
FirstID(p) == Getter(p, "FirstID", firstID)

\* lines 86-88: value receiver, no mutex
SegmentSize(p) ==
  /\ pc[p] = "idle"
  /\ Return(p, Result(p, "SegmentSize", 0, 0, <<>>, segment, Nil, <<>>))
  /\ UNCHANGED <<bufferVars, ghostVars>>

Next ==
  \E p \in Procs :
    \/ WriteCheck(p) \/ WriteLock(p) \/ WriteAppend(p)
    \/ WriteCount(p) \/ WriteEvict(p) \/ WriteUnlock(p)
    \/ SetCount(p)
    \/ GetCheck(p) \/ GetLock(p) \/ GetAcquire(p) \/ GetCopy(p)
    \/ ReadIDLock(p) \/ ReadIDAcquire(p) \/ ReadIDCopy(p) \/ ReadIDSink(p)
    \/ Count(p) \/ Size(p) \/ LastID(p) \/ FirstID(p) \/ SegmentSize(p)

Spec == Init /\ [][Next]_vars

\* ================================================================= claims
\* The segment with id i of the stream: segment bytes at offset
\* (i - start) * segment of the concatenation of the appended payloads.
StreamSegment(i) ==
  SubSeq(written, (i - start) * segment + 1, (i - start) * segment + segment)

\* Program points at which a goroutine is between Lock and Unlock.
Inside ==
  {"w_append", "w_count", "w_loop", "g_acquire", "g_copy", "r_acquire",
   "r_copy", "panic"}

\* No Write is between its Lock and its Unlock.
NoWriter == \A p \in Procs : pc[p] \notin {"w_append", "w_count", "w_loop", "panic"}

\* The step just taken returned an accepted Write.
WriteDone == ret.op = "Write" /\ ret.err = Nil

\* The step just taken is the return of a call that resolved its id in that
\* same step, under the mutex: the Buffer is as acquireID saw it.
Resolved ==
  \/ ret.op = "Get" /\ ret.err.cause # ErrBufferTooSmall
  \/ ret.op = "ReadID" /\ ret.sunk = <<>>

\* ---------------------------------------------------------------------- C1
\* C1 as stated: after each accepted Write the window spans exactly the
\* store, (lastID - firstID + 1) * segment = len(data), and that is at most
\* maxCount * segment.
WindowSpansStore ==
  WriteDone =>
    /\ (lastID - firstID + 1) * segment = Len(data)
    /\ Len(data) <= maxCount * segment

\* C1 as amended: after each accepted Write the window spans the complete
\* segments of the store, (lastID - firstID + 1) * segment =
\* len(data) - len(data) mod segment, which is all of it when every payload
\* was a whole number of segments, and len(data) <= maxCount * segment.
WindowSpansSegments ==
  WriteDone =>
    /\ (lastID - firstID + 1) * segment = Len(data) - (Len(data) % segment)
    /\ plain => (lastID - firstID + 1) * segment = Len(data)
    /\ Len(data) <= maxCount * segment

\* A Write returned after an eviction and left a trailing partial segment.
WindowWitness ==
  /\ WriteDone
  /\ firstID > start
  /\ Len(data) % segment # 0
  /\ lastID >= firstID

FetchContent ==
  (ret.op = "Get" /\ ret.err = Nil) =>
    /\ firstID <= ret.id /\ ret.id <= lastID
    /\ SubSeq(ret.buf, 1, segment) = StreamSegment(ret.id)
    /\ \A k \in segment + 1..Len(ret.buf) : ret.buf[k] = Blank

\* A Get served the newest segment after older ones were evicted and after
\* payloads that were not whole segments.
FetchWitness ==
  /\ ret.op = "Get" /\ ret.err = Nil
  /\ firstID > start /\ ret.id = lastID /\ ~plain
  /\ Len(ret.buf) > segment

\* ---------------------------------------------------------------------- C4
\* C4: a ReadID whose id is inside the window hands the sink exactly one
\* slice, the segment bytes of that id.
StreamForwardsSegment ==
  (ret.op = "ReadID" /\ ret.sunk # <<>>) =>
    ret.sunk = <<StreamSegment(ret.id)>>

\* ---------------------------------------------------------------------- C5
\* C5: without overflow, the size check refuses a payload exactly when it is
\* longer than maxCount * segment for the maxCount of that moment; a
\* refused Write returns (0, ErrTooLargeWrite) and leaves data, firstID and
\* lastID as they were; no Write fails in any other way.
RejectionRule ==
  [][ \A p \in Procs :
        /\ (pc[p] = "idle" /\ pc'[p] = "w_lock" /\ ~overflow)
             => Len(buf'[p]) <= maxCount * segment
        /\ (ret'.op = "Write" /\ ret'.p = p /\ ret'.err # Nil)
             => /\ pc[p] = "idle"
                /\ ~overflow
                /\ Len(ret'.buf) > maxCount * segment
                /\ ret'.n = 0
                /\ ret'.err.cause = ErrTooLargeWrite
                /\ UNCHANGED <<data, firstID, lastID>>
    ]_vars

\* A payload too long for the capacity of the construction was accepted
\* after SetCount raised the capacity.
RejectionWitness ==
  /\ WriteDone /\ ~overflow /\ start = 0
  /\ Len(ret.buf) = MaxPayload /\ maxCount = 2 /\ ~plain

\* ---------------------------------------------------------------------- C6
\* C6: once a Get has returned, with or without an error, the mutex is free
\* unless another goroutine is between its Lock and its Unlock.
FetchReturnsUnlocked ==
  (ret.op = "Get" /\ \A p \in Procs : pc[p] \notin Inside) => ~l

\* ---------------------------------------------------------------------- C7
\* The id of the call that just returned lies outside [firstID, lastID].
Outside == ret.id < firstID \/ ret.id > lastID

\* C7 as stated: before any Write has succeeded every Get / ReadID returns
\* ErrEmpty; once a Write has succeeded, an id outside the window gets
\* ErrMiss.
MissAfterAnyWrite ==
  Resolved =>
    /\ ~accepted => ret.err.cause = ErrEmpty
    /\ (accepted /\ Outside) => ret.err.cause = ErrMiss

\* C7 as amended: before any Write has succeeded every Get / ReadID returns
\* ErrEmpty; once a Write has succeeded, an id outside the window gets
\* ErrMiss while the store holds at least one byte, and ErrEmpty while it
\* holds none (only empty payloads so far, or everything evicted).
MissAfterBytes ==
  Resolved =>
    /\ ~accepted => ret.err.cause = ErrEmpty
    /\ (accepted /\ Outside /\ Len(data) > 0) => ret.err.cause = ErrMiss
    /\ (accepted /\ Len(data) = 0) => ret.err.cause = ErrEmpty

\* A ReadID asked for an evicted segment of a store that holds bytes.
MissWitness ==
  /\ Resolved /\ ret.op = "ReadID" /\ accepted
  /\ start <= ret.id /\ ret.id < firstID
  /\ Len(data) > 0 /\ ret.err.cause = ErrMiss

\* ---------------------------------------------------------------------- C8
\* C8 as stated: Get / ReadID return ErrEmpty whenever the store holds no
\* complete segment, and ErrMiss only when it holds one and the id is
\* outside the window.
EmptyWithoutSegment ==
  Resolved =>
    /\ Len(data) < segment => ret.err.cause = ErrEmpty
    /\ ret.err.cause = ErrMiss => (Len(data) >= segment /\ Outside)

\* C8 as amended: Get / ReadID return ErrEmpty exactly when the store holds
\* no byte, and ErrMiss exactly when it holds a byte and the id is outside
\* the window; a store that holds only a trailing partial segment gives
\* ErrMiss for every id.
EmptyWithoutBytes ==
  Resolved =>
    /\ ret.err.cause = ErrEmpty <=> Len(data) = 0
    /\ ret.err.cause = ErrMiss <=> (Len(data) > 0 /\ Outside)
    /\ (0 < Len(data) /\ Len(data) < segment) => ret.err.cause = ErrMiss

\* A Get found only a trailing partial segment.
PartialWitness ==
  /\ Resolved /\ ret.op = "Get"
  /\ 0 < Len(data) /\ Len(data) < segment
  /\ ret.err.cause = ErrMiss

\* ---------------------------------------------------------------------- C9
\* C9: a Get returns ErrBufferTooSmall exactly when its destination is
\* shorter than one segment, whatever the id and the state of the Buffer,
\* and then nothing was copied and no field of the Buffer changed.
SmallBufferGuard ==
  [][ ret'.op = "Get" =>
        /\ Len(ret'.buf) < segment <=> ret'.err.cause = ErrBufferTooSmall
        /\ Len(ret'.buf) < segment =>
             /\ ret'.buf = [k \in 1..Len(ret'.buf) |-> Blank]
             /\ UNCHANGED bufferVars
    ]_vars

\* A Get with a short destination returned for an id inside the window,
\* while another goroutine held the mutex.
SmallBufferWitness ==
  /\ ret.op = "Get" /\ ret.err.cause = ErrBufferTooSmall
  /\ Len(data) >= segment /\ firstID <= ret.id /\ ret.id <= lastID
  /\ l

\* --------------------------------------------------------------------- C10
\* C10: when an accepted Write returns, the store holds at most maxCount
\* segments and the Write returns (len(buf), nil).
CapacityBound ==
  (ret.op = "Write" /\ ret.err.cause # ErrTooLargeWrite) =>
    /\ Len(data) \div segment <= maxCount
    /\ ret.n = Len(ret.buf)
    /\ ret.err = Nil

\* With overflow allowed, a Write longer than the window returned after
\* SetCount had shrunk the window.
CapacityWitness ==
  /\ WriteDone /\ overflow /\ ~plain
  /\ maxCount = 1
  /\ Len(ret.buf) > maxCount * segment
  /\ firstID > start + 1

\* --------------------------------------------------------------------- C11
\* C11: SetCount stores its argument in maxCount and changes nothing else
\* of the Buffer, also when the argument is smaller than the number of
\* segments held; the store changes only in the append and eviction steps
\* of a Write.
SetCountFrame ==
  [][ /\ ret'.op = "SetCount" =>
           /\ maxCount' = ret'.newCount
           /\ UNCHANGED <<segment, count, lastID, firstID, overflow, l, data>>
      /\ data' # data => \E p \in Procs : pc[p] \in {"w_append", "w_loop"}
    ]_vars

\* SetCount returned and the store holds more segments than the new count.
SetCountWitness ==
  /\ ret.op = "SetCount"
  /\ Len(data) \div segment > maxCount
  /\ maxCount = ret.newCount /\ maxCount >= 1
  /\ lastID - firstID + 1 > maxCount

\* --------------------------------------------------------------------- C12
\* C12: ReadID releases the mutex in the step that takes it to the sink, and
\* its return from the sink neither needs nor touches the mutex, so that
\* every call of another goroutine can lock while the sink is busy.
StreamUnlocksBeforeSink ==
  [][ \A p \in Procs :
        /\ (pc[p] # "r_sink" /\ pc'[p] = "r_sink") => (l /\ ~l')
        /\ (pc[p] = "r_sink" /\ pc'[p] # "r_sink") => l' = l
    ]_vars

\* While one goroutine is in the sink, a Write of the other has locked,
\* evicted and returned.
StreamWitness ==
  \E p \in Procs :
    /\ pc[p] = "r_sink"
    /\ ret.op = "Write" /\ ret.err = Nil /\ ret.p # p
    /\ id[p] < firstID

\* --------------------------------------------------------------------- C13
\* What a reader may see: no Write is between its Lock and its Unlock, and
\* the Buffer is either as New left it or as a completed append left it,
\* with the window on the complete segments of the store and the store the
\* tail of the stream from the first segment of the window on.
Untorn ==
  /\ NoWriter
  /\ \/ written = <<>> /\ data = <<>> /\ firstID = start
     \/ /\ lastID = firstID + Len(data) \div segment - 1
        /\ data = Drop(written, (firstID - start) * segment)

\* C13: from its Lock to its return a Get sees one such state: the window
\* check and the copy are made on the same data, firstID and lastID.
NoTornRead ==
  \A p \in Procs : pc[p] \in {"g_acquire", "g_copy"} => Untorn

\* A Get is about to copy while the Write of the other goroutine, already
\* past its size check, waits for the mutex.
TornWitness ==
  \E p, q \in Procs :
    /\ pc[p] = "g_copy" /\ pc[q] = "w_lock" /\ Len(buf[q]) > 0
    /\ firstID > start

\* --------------------------------------------------------------------- C14
\* C14: when ReadID reached the sink and the sink failed, the error ReadID
\* returns carries a message of the forwarding step around the sink's error.
SinkErrorWrapped ==
  (ret.op = "ReadID" /\ ret.sunk # <<>> /\ ret.err # Nil) => ret.err.msg # ""

\* --------------------------------------------------------------------- C15
\* C15: a Write that appends while overflow is off appends a payload of at
\* most maxCount * segment bytes, maxCount as it is at the append.
AppendWithinCapacity ==
  \A p \in Procs :
    (pc[p] = "w_append" /\ ~overflow) => Len(buf[p]) <= segment * maxCount

\* --------------------------------------------------------------------- C16
\* C16: once a Write was accepted and no Write is between Lock and Unlock,
\* lastID = firstID + len(data) / segment - 1 (integer division), and every
\* id acquireID admits names a whole segment inside the store: the trailing
\* partial segment has no id.
CompleteSegmentsOnly ==
  (accepted /\ NoWriter) =>
    /\ lastID = firstID + Len(data) \div segment - 1
    /\ \A i \in IDs : acquireID(i) = "nil" => InSlice(i)

\* A Get for the id right after the window misses although the store ends
\* in the first bytes of that segment.
PartialNotAddressable ==
  /\ ret.op = "Get" /\ ret.err.cause = ErrMiss /\ ret.id = lastID + 1
  /\ accepted /\ lastID >= firstID
  /\ Len(data) % segment # 0

\* --------------------------------------------------------------------- C17
\* C17: LastID() is never below FirstID() - 1, and it is FirstID() - 1
\* whenever the store holds no complete segment, from New on.
EmptyEncoding ==
  ret.op = "LastID" =>
    /\ ret.n = lastID
    /\ ret.n >= firstID - 1
    /\ Len(data) \div segment = 0 => ret.n = firstID - 1

\* --------------------------------------------------------------------- C18
\* C18: neither firstID nor lastID, the values FirstID() and LastID() read
\* under the mutex, ever decreases.
WindowMonotonic ==
  [][firstID' >= firstID /\ lastID' >= lastID]_vars

\* --------------------------------------------------------------------- C19
\* C19: every iteration of Write's eviction loop finds at least one segment
\* of bytes in the store to drop, so that no Write stops inside the loop
\* with the mutex held.
EvictionWithinStore ==
  \A p \in Procs :
    /\ pc[p] # "panic"
    /\ (pc[p] = "w_loop" /\ OverFull) => segment <= Len(data)
====
